---- MODULE Spec2Model ----
(***************************************************************************)
(* Model of the runbook job orchestration of the Azure MCP server:         *)
(* tools/trigger_automation_runbooks.py, _create_and_monitor_runbook_job   *)
(* and _get_job_output_content, and of the path that leads to it: the tool *)
(* trigger_vm_power_status_runbook and _handle_azure_operation (server.py),*)
(* AzureAuthenticator.get_credential (tools/config/auth.py) and            *)
(* trigger_vm_power_status_runbook_logic.                                  *)
(*                                                                         *)
(* The coroutine is cut at its await points: every action is the return    *)
(* (or the raise) of one awaited call together with the code that runs up  *)
(* to the next await.                                                      *)
(***************************************************************************)
EXTENDS Integers, Sequences, FiniteSets, TLC

\* ------------------------------------------------------------------ bounds
MaxBudget == 3
MaxNegBudget == 2
MaxInterval == 2
MaxStreams == 2

\* The defaults of poll_interval_seconds and job_timeout_seconds are 10 and
\* 900 (90 polls); the calls that rely on them are checked with a default
\* interval and a default budget of this size.
DefaultPollInterval == 1
DefaultTimeout == 1

\* ------------------------------------------------------- control plane data
\* Statuses a job.create / job.get response may carry (current_job_details
\* .status is an open string).  "Activating" stands for every status of the
\* service that is neither Queued, Running nor named by the loop.
Statuses == {"Queued", "Running", "Activating",
             "Completed", "Failed", "Suspended", "Stopped"}

\* The `exception` attribute of a job: "" is an absent or empty text.
ExceptionTexts == {"", "boom"}

\* What an awaited SDK call may raise, by the except arm that catches it.
ApiErrors == {"ResourceNotFoundError", "HttpResponseError", "Exception"}
StreamErrors == {"AttributeError", "HttpResponseError", "Exception"}

JobIds == {"guid-1", "guid-2"}

Budgets == (0 - MaxNegBudget)..MaxBudget
Intervals == 1..MaxInterval

\* A value of a summary / error_summary / "Error" text.  Texts are built by
\* f-strings from a fixed phrase (tag) and the interpolated values.
Text(tag, text, n) == [tag |-> tag, text |-> text, budget |-> n]
None == Text("None", "", 0)

\* Stream records as the control plane returns them; time 0 is a record
\* without a time.
Absent == "<absent>"
WireRecords ==
  { [id |-> "s1", stream_type |-> "Output", time |-> 2, summary |-> "a"],
    [id |-> "s2", stream_type |-> "Error", time |-> 1, summary |-> "b"],
    [id |-> "s3", stream_type |-> Absent, time |-> 0, summary |-> "a"] }

RECURSIVE SeqsUpTo(_, _)
SeqsUpTo(S, n) ==
  IF n = 0 THEN {<<>>}
  ELSE LET shorter == SeqsUpTo(S, n - 1)
       IN shorter \cup {Append(s, x) : s \in {t \in shorter : Len(t) = n - 1}, x \in S}

WireSequences == SeqsUpTo(WireRecords, MaxStreams)

\* datetime.isoformat()
IsoFormat(t) == CASE t = 1 -> "0001-01-01T00:00:01"
                  [] t = 2 -> "0001-01-01T00:00:02"
                  [] OTHER -> "0001-01-01T00:00:00"

\* -------------------------------------------------- the path: its data
\* auth_type values: "" is None or the empty string, "bogus" any other value.
AuthTypes == {"", "default", "spn", "identity", "bogus"}

\* A name argument is empty ("" or None) or not.
Names == {"", "x"}
SubscriptionIds == {"", "sub-1"}

\* os.getenv: "" is an unset or empty variable; Unread one never looked up.
Unread == "<unread>"
EnvValues == {"", "v"}

NoRequest ==
  [subscription_id |-> "", auth_type |-> "", resource_group_name |-> "",
   vm_name |-> "", automation_account_name |-> "", runbook_name |-> ""]
Requests ==
  [subscription_id : SubscriptionIds, auth_type : AuthTypes,
   resource_group_name : Names, vm_name : Names,
   automation_account_name : Names, runbook_name : Names]

NoEnv == [tenant_id |-> Unread, client_id |-> Unread, client_secret |-> Unread,
          identity_client_id |-> Unread]
NoCredential == [kind |-> "none", client_id |-> ""]
NoResponse == [ctx |-> "none", kind |-> "none", error |-> None, body |-> "none"]

\* What get_token may raise, and what constructing the AutomationClient may.
ProbeErrors == {"ClientAuthenticationError", "EnvironmentError", "ValueError", "Exception"}
LogicErrors == {"ConnectionError", "HttpResponseError", "ValueError", "Exception"}

\* ------------------------------------------------------------------- state
\* pc                     the await the coroutine is suspended at: "create"
\*                        (job.create), "sleep" (asyncio.sleep), "get"
\*                        (job.get), "streams" (_get_job_output_content),
\*                        or "done" (returned)
\* job_guid, poll_interval_seconds, job_timeout_seconds, current_job_details,
\* job_final_status, total_wait_time, result
\*                        the locals and parameters of the same names
\* statusLog              the statuses reported so far, the creation response
\*                        first, then one per job.get that returned
\* createCalls, getCalls, sleeps, streamCalls
\*                        how often job.create, job.get, asyncio.sleep and
\*                        job_stream.list_by_job were called
\* stream_fetch           what the control plane did on the stream fetch
\* raised                 the call that raised into the except arms, if any
VARIABLES pc, job_guid, poll_interval_seconds, job_timeout_seconds,
          current_job_details, job_final_status, total_wait_time, result,
          statusLog, createCalls, getCalls, sleeps, streamCalls,
          stream_fetch, raised

\* The path around the orchestration:
\* entry                  the function the caller entered: "tool"
\*                        (trigger_vm_power_status_runbook), "handler"
\*                        (_handle_azure_operation with the runbook logic),
\*                        "get_credential", or "orchestration"
\*                        (_create_and_monitor_runbook_job itself)
\* hpc                    where that call stands: "entry" (not started),
\*                        "probe" (get_credential awaits get_token), "logic"
\*                        (the AutomationClient is open, the orchestration
\*                        runs), "client_closed" (the async with of the client
\*                        was left), "finished" (returned or raised an
\*                        Exception), "cancelled" (CancelledError left it)
\* request                the arguments of the call
\* env_read               what os.getenv returned inside get_credential
\* credential             credential_instance
\* credsConstructed       how many credential objects were constructed
\* tokenRequests          how often get_token was called (calls issued)
\* resourceLog            the AutomationClient opened and the close() calls
\*                        made on it and on the credential, in order
\* probe_raised           what get_token raised
\* logic_args             the arguments the logic function was called with
\* auth_outcome           "returned", or the ConnectionError get_credential
\*                        raised
\* response               what the tool / handler returned and told ctx
\* failure                the failure that ended the call before job.create
\* cancelledAt            the await at which the caller cancelled the task
VARIABLES entry, hpc, request, env_read, credential, credsConstructed,
          tokenRequests, resourceLog, auth_outcome, response, failure,
          cancelledAt, probe_raised, logic_args

orchestrationVars ==
  <<pc, job_guid, poll_interval_seconds, job_timeout_seconds,
    current_job_details, job_final_status, total_wait_time, result,
    statusLog, createCalls, getCalls, sleeps, streamCalls,
    stream_fetch, raised>>

pathVars ==
  <<entry, hpc, request, env_read, credential, credsConstructed,
    tokenRequests, resourceLog, auth_outcome, response, failure, cancelledAt,
    probe_raised, logic_args>>

\* Several calls of the orchestration in one event loop:
\* tasks                  the frame of each call: its parameters, its locals
\*                        and the await it is suspended at
\* controlPlane           per job name, what the Automation service answers
\*                        to job.create, to each job.get and to the stream
\*                        fetch for that job
\* calls                  the control-plane calls issued so far: the task,
\*                        the call and the job name it carried
VARIABLES tasks, controlPlane, calls

concurrentVars == <<tasks, controlPlane, calls>>

vars == <<orchestrationVars, pathVars, concurrentVars>>

NoDetails == [status |-> "", exception |-> "", stamp |-> 0 - 1]
JobDetails(status, exception, stamp) ==
  [status |-> status, exception |-> exception, stamp |-> stamp]

NoResult ==
  [kind |-> "None", job_id |-> "", status |-> "", times |-> 0 - 1,
   output_streams |-> <<>>, error_summary |-> None, Error |-> None]

NoFetch == [records |-> <<>>, failAt |-> 0 - 1, error |-> ""]

\* --------------------------------------------------- _get_job_output_content
\* record_details of one stream record (lines 35-48).
RecordDetails(w) ==
  [stream_id |-> w.id,
   stream_type |-> IF w.stream_type # Absent THEN w.stream_type ELSE "Unknown",
   time |-> IF w.time # 0 THEN IsoFormat(w.time) ELSE "None",
   summary |-> Text("stream", w.summary, 0)]

SyntheticRecord(stream_type, summary) ==
  [stream_id |-> "None", stream_type |-> stream_type, time |-> "None",
   summary |-> summary]

InfoPlaceholder == SyntheticRecord("Info", Text("No output stream records were found for this job.", "", 0))

FetchErrorRecord(error) ==
  SyntheticRecord("Error",
    CASE error = "AttributeError" -> Text("SDK/Attribute Error fetching job output", error, 0)
      [] error = "HttpResponseError" -> Text("API Error fetching job output", error, 0)
      [] OTHER -> Text("Unexpected error fetching job output", error, 0))

\* The records of s in ascending order of their time.
RECURSIVE SortedByTime(_)
SortedByTime(s) ==
  IF s = <<>> THEN <<>>
  ELSE LET first == CHOOSE i \in 1..Len(s) : \A j \in 1..Len(s) : s[i].time <= s[j].time
           rest == [k \in 1..(Len(s) - 1) |-> IF k < first THEN s[k] ELSE s[k + 1]]
       IN <<s[first]>> \o SortedByTime(rest)

\* Variant: the records are returned sorted by their time.
get_job_output_content_Sorted(records, failAt, error) ==
  IF failAt >= 0
  THEN <<FetchErrorRecord(error)>>
  ELSE LET output_records == [i \in 1..Len(records) |->
                                RecordDetails(SortedByTime(records)[i])]
       IN IF output_records = <<>> THEN <<InfoPlaceholder>> ELSE output_records

\* Variant: an empty pager yields an empty list (no placeholder).
get_job_output_content_NoPlaceholder(records, failAt, error) ==
  IF failAt >= 0
  THEN <<FetchErrorRecord(error)>>
  ELSE [i \in 1..Len(records) |-> RecordDetails(records[i])]

\* Variant: a failing iteration keeps the records read so far.
get_job_output_content_Partial(records, failAt, error) ==
  IF failAt >= 0
  THEN Append([i \in 1..failAt |-> RecordDetails(records[i])], FetchErrorRecord(error))
  ELSE LET output_records == [i \in 1..Len(records) |-> RecordDetails(records[i])]
       IN IF output_records = <<>> THEN <<InfoPlaceholder>> ELSE output_records

\* records: what the pager would yield; failAt = -1: no failure, failAt = k:
\* list_by_job or the iteration raises `error` after k records were read.
get_job_output_content(records, failAt, error) ==
  IF failAt >= 0
  THEN <<FetchErrorRecord(error)>>
  ELSE LET output_records == [i \in 1..Len(records) |-> RecordDetails(records[i])]
       IN IF output_records = <<>> THEN <<InfoPlaceholder>> ELSE output_records

\* ------------------------------------------- _create_and_monitor_runbook_job
\* Variant: "Stopped" left out of the list.
IsTerminal_NoStopped(status) == status \in {"Completed", "Failed", "Suspended"}

\* while condition, line 102
IsTerminal(status) == status \in {"Completed", "Failed", "Suspended", "Stopped"}

\* Variant: a budget of zero or less means no budget.
BudgetExhausted_PositiveOnly(wait, budget) == budget > 0 /\ wait >= budget

\* Variant: strict comparison.
BudgetExhausted_Strict(wait, budget) == wait > budget

\* line 103
BudgetExhausted(wait, budget) == wait >= budget

\* Variant: the wait is not added up.
NextWait_Stalled(wait, interval) == wait

\* Variant: the interval grows with the time already waited.
NextWait_Backoff(wait, interval) == 2 * wait + interval

\* Variant: the wait counts iterations instead of seconds.
NextWait_Ticks(wait, interval) == wait + 1

\* line 110
NextWait(wait, interval) == wait + interval

\* The loop of lines 102-119 is left at its head: the while condition fails,
\* or the budget check of line 103 breaks.
LoopExits(status, wait, budget) == IsTerminal(status) \/ BudgetExhausted(wait, budget)

\* Variant: the budget check comes before the look at the status.
ExitStatus_BudgetFirst(status, wait, budget) ==
  IF BudgetExhausted(wait, budget) THEN "TimedOut" ELSE status

\* job_final_status when the loop is left: the reported status if the while
\* condition failed, "TimedOut" (line 105) otherwise.
ExitStatus(status, wait, budget) == IF IsTerminal(status) THEN status ELSE "TimedOut"

\* Variant: the timeout branch fetches the streams too.
FetchesStreams_Always(final) == TRUE

\* Variant: only the failure branch fetches the streams.
FetchesStreams_FailuresOnly(final) == final \in {"Failed", "Suspended", "Stopped"}

\* lines 137, 143: the branches that await _get_job_output_content
FetchesStreams(final) == final = "Completed" \/ final \in {"Failed", "Suspended", "Stopped"}

\* Variant: the exception text of the job is not looked at.
ErrorSummary_Generic(final, details, guid, budget) ==
  CASE final = "Completed" -> None
    [] final \in {"Failed", "Suspended", "Stopped"} -> Text("Job ended with status", final, 0)
    [] final = "TimedOut" -> Text("monitoring timed out", guid, budget)
    [] OTHER -> Text("Job ended in an unexpected state", final, 0)

\* Variant: no fallback text when the job carries no exception.
ErrorSummary_NoFallback(final, details, guid, budget) ==
  CASE final = "Completed" -> None
    [] final \in {"Failed", "Suspended", "Stopped"} ->
         IF details.exception # "" THEN Text("exception", details.exception, 0)
         ELSE None
    [] final = "TimedOut" -> Text("monitoring timed out", guid, budget)
    [] OTHER -> Text("Job ended in an unexpected state", final, 0)

\* result["error_summary"], lines 134-154
ErrorSummary(final, details, guid, budget) ==
  CASE final = "Completed" -> None
    [] final \in {"Failed", "Suspended", "Stopped"} ->
         IF details.exception # "" THEN Text("exception", details.exception, 0)
         ELSE Text("Job ended with status", final, 0)
    [] final = "TimedOut" -> Text("monitoring timed out", guid, budget)
    [] OTHER -> Text("Job ended in an unexpected state", final, 0)

\* Variant: the result is stamped with the time of its composition.
ComposeResult_ClockStamped(final, details, guid, budget) ==
  [kind |-> "JobResult",
   job_id |-> guid,
   status |-> final,
   times |-> total_wait_time,
   output_streams |->
     IF final = "TimedOut"
     THEN <<SyntheticRecord("Error", ErrorSummary(final, details, guid, budget))>>
     ELSE <<>>,
   error_summary |-> ErrorSummary(final, details, guid, budget),
   Error |-> None]

\* `times` names the response whose start_time, end_time, creation_time and
\* last_modified_time the result carries (lines 126-129 take all four from
\* current_job_details): 0 the creation response, k the k-th job.get.
\* result as built by lines 122-154 before the stream fetch returns
ComposeResult(final, details, guid, budget) ==
  [kind |-> "JobResult",
   job_id |-> guid,
   status |-> final,
   times |-> details.stamp,
   output_streams |->
     IF final = "TimedOut"
     THEN <<SyntheticRecord("Error", ErrorSummary(final, details, guid, budget))>>
     ELSE <<>>,
   error_summary |-> ErrorSummary(final, details, guid, budget),
   Error |-> None]

\* the except arms, lines 159-170
ErrorResult(error) ==
  [NoResult EXCEPT !.kind = "Error",
     !.Error = CASE error = "ResourceNotFoundError" -> Text("Resource not found error", error, 0)
                 [] error = "HttpResponseError" -> Text("Azure API error during job lifecycle", error, 0)
                 [] OTHER -> Text("An unexpected error occurred while processing runbook", error, 0)]

\* The locals of the orchestration before its first await.
InitLocals ==
  /\ pc = "create"
  /\ job_guid \in JobIds
  /\ current_job_details = NoDetails
  /\ job_final_status = ""
  /\ total_wait_time = 0
  /\ result = NoResult
  /\ statusLog = <<>>
  /\ createCalls = 0
  /\ getCalls = 0
  /\ sleeps = 0
  /\ streamCalls = 0
  /\ stream_fetch = NoFetch
  /\ raised = "none"

\* Nothing of the path around the orchestration has happened.
InitPath(e, h) ==
  /\ entry = e
  /\ hpc = h
  /\ request = NoRequest
  /\ env_read = NoEnv
  /\ credential = NoCredential
  /\ credsConstructed = 0
  /\ tokenRequests = 0
  /\ resourceLog = <<>>
  /\ auth_outcome = "none"
  /\ response = NoResponse
  /\ failure = "none"
  /\ cancelledAt = "none"
  /\ probe_raised = "none"
  /\ logic_args = NoRequest

\* One call only: no other frame exists.
SingleCall ==
  /\ tasks = <<>>
  /\ controlPlane = <<>>
  /\ calls = {}

\* _create_and_monitor_runbook_job called with a client, for every poll
\* interval and budget.
Init ==
  /\ SingleCall
  /\ InitLocals
  /\ poll_interval_seconds \in Intervals
  /\ job_timeout_seconds \in Budgets
  /\ InitPath("orchestration", "logic")

\* A status response arrived (from job.create or job.get) with the cumulative
\* wait `wait`: lines 98 / 118, the loop head 102-106 and, when the loop is
\* left, the composition 122-154 up to the next await.
StatusArrives(details, wait) ==
  /\ current_job_details' = details
  /\ statusLog' = Append(statusLog, details.status)
  /\ total_wait_time' = wait
  /\ IF LoopExits(details.status, wait, job_timeout_seconds)
     THEN LET final == ExitStatus(details.status, wait, job_timeout_seconds)
          IN /\ job_final_status' = final
             /\ result' = ComposeResult(final, details, job_guid, job_timeout_seconds)
             /\ pc' = IF FetchesStreams(final) THEN "streams" ELSE "done"
     ELSE /\ job_final_status' = details.status
          /\ result' = result
          /\ pc' = "sleep"

\* Variant: the call that raised is issued again.
CallRaises_Retry(call, error) ==
  /\ raised' = call
  /\ result' = result
  /\ pc' = call
  /\ UNCHANGED <<current_job_details, job_final_status, total_wait_time, statusLog>>

\* job.create or job.get raises: the except arms of lines 159-170 return.
CallRaises(call, error) ==
  /\ raised' = call
  /\ result' = ErrorResult(error)
  /\ pc' = "done"
  /\ UNCHANGED <<current_job_details, job_final_status, total_wait_time, statusLog>>

\* await automation_client.job.create(...), lines 90-98
JobCreate ==
  /\ pc = "create"
  /\ createCalls' = createCalls + 1
  /\ \/ \E status \in Statuses, exception \in ExceptionTexts :
          /\ StatusArrives(JobDetails(status, exception, 0), 0)
          /\ raised' = raised
     \/ \E error \in ApiErrors : CallRaises("create", error)
  /\ UNCHANGED <<job_guid, poll_interval_seconds, job_timeout_seconds,
                 getCalls, sleeps, streamCalls, stream_fetch>>

\* await asyncio.sleep(poll_interval_seconds), lines 108-110
Sleep ==
  /\ pc = "sleep"
  /\ total_wait_time' = NextWait(total_wait_time, poll_interval_seconds)
  /\ sleeps' = sleeps + 1
  /\ pc' = "get"
  /\ UNCHANGED <<job_guid, poll_interval_seconds, job_timeout_seconds,
                 current_job_details, job_final_status, result, statusLog,
                 createCalls, getCalls, streamCalls, stream_fetch, raised>>

\* await automation_client.job.get(...), lines 113-119
JobGet ==
  /\ pc = "get"
  /\ getCalls' = getCalls + 1
  /\ \/ \E status \in Statuses, exception \in ExceptionTexts :
          /\ StatusArrives(JobDetails(status, exception, getCalls + 1), total_wait_time)
          /\ raised' = raised
     \/ \E error \in ApiErrors : CallRaises("get", error)
  /\ UNCHANGED <<job_guid, poll_interval_seconds, job_timeout_seconds,
                 createCalls, sleeps, streamCalls, stream_fetch>>

\* Variant: the status is fetched once more after the streams.
JobStreams_ThenPolls ==
  /\ pc = "streams"
  /\ streamCalls' = streamCalls + 1
  /\ \E records \in WireSequences :
       \E failAt \in (0 - 1)..Len(records) :
         \E error \in IF failAt >= 0 THEN StreamErrors ELSE {""} :
           /\ stream_fetch' = [records |-> records, failAt |-> failAt, error |-> error]
           /\ result' = [result EXCEPT !.output_streams =
                           get_job_output_content(records, failAt, error)]
  /\ pc' = "get"
  /\ UNCHANGED <<job_guid, poll_interval_seconds, job_timeout_seconds,
                 current_job_details, job_final_status, total_wait_time,
                 statusLog, createCalls, getCalls, sleeps, raised>>

\* await _get_job_output_content(...), lines 140-142 / 146-148
JobStreams ==
  /\ pc = "streams"
  /\ streamCalls' = streamCalls + 1
  /\ \E records \in WireSequences :
       \E failAt \in (0 - 1)..Len(records) :
         \E error \in IF failAt >= 0 THEN StreamErrors ELSE {""} :
           /\ stream_fetch' = [records |-> records, failAt |-> failAt, error |-> error]
           /\ result' = [result EXCEPT !.output_streams =
                           get_job_output_content(records, failAt, error)]
  /\ pc' = "done"
  /\ UNCHANGED <<job_guid, poll_interval_seconds, job_timeout_seconds,
                 current_job_details, job_final_status, total_wait_time,
                 statusLog, createCalls, getCalls, sleeps, raised>>

Orchestration == JobCreate \/ Sleep \/ JobGet \/ JobStreams

\* The orchestration is the only thing that runs.
Alone == UNCHANGED <<pathVars, concurrentVars>>

Next ==
  \/ JobCreate /\ Alone
  \/ Sleep /\ Alone
  \/ JobGet /\ Alone
  \/ JobStreams /\ Alone

Spec == Init /\ [][Next]_vars

\* Every awaited call returns or raises, and asyncio.sleep ends: the
\* coroutine is resumed whenever it is suspended.
SpecLive == Init /\ [][Next]_vars /\ WF_vars(Next)

\* ------------------------------------------ AzureAuthenticator.get_credential
\* Variant: the client secret is not among the values tested.
SecretsComplete_NoSecret(env) == env.tenant_id # "" /\ env.client_id # ""

\* if not all([tenant_id, client_id, client_secret]), line 30
SecretsComplete(env) ==
  env.tenant_id # "" /\ env.client_id # "" /\ env.client_secret # ""

\* The os.getenv lookups of the branch taken (lines 27-29, 37).
EnvsFor(auth_type) ==
  CASE auth_type = "spn" ->
         [tenant_id : EnvValues, client_id : EnvValues, client_secret : EnvValues,
          identity_client_id : {Unread}]
    [] auth_type = "identity" ->
         [tenant_id : {Unread}, client_id : {Unread}, client_secret : {Unread},
          identity_client_id : EnvValues]
    [] OTHER -> {NoEnv}

\* Variant: an unknown auth_type falls back to the default credential.
CredentialSetup_FallbackDefault(auth_type, env) ==
  CASE auth_type = "spn" ->
         IF SecretsComplete(env)
         THEN [raises |-> "", credential |->
                 [kind |-> "ClientSecretCredential", client_id |-> env.client_id]]
         ELSE [raises |-> "EnvironmentError", credential |-> NoCredential]
    [] auth_type = "identity" ->
         [raises |-> "", credential |->
            [kind |-> "ManagedIdentityCredential", client_id |-> env.identity_client_id]]
    [] OTHER ->
         [raises |-> "", credential |->
            [kind |-> "DefaultAzureCredential", client_id |-> ""]]

\* Lines 26-50: the credential that is constructed, or the exception raised
\* before any is.
CredentialSetup(auth_type, env) ==
  CASE auth_type = "spn" ->
         IF SecretsComplete(env)
         THEN [raises |-> "", credential |->
                 [kind |-> "ClientSecretCredential", client_id |-> env.client_id]]
         ELSE [raises |-> "EnvironmentError", credential |-> NoCredential]
    [] auth_type = "identity" ->
         [raises |-> "", credential |->
            [kind |-> "ManagedIdentityCredential", client_id |-> env.identity_client_id]]
    [] auth_type = "default" ->
         [raises |-> "", credential |->
            [kind |-> "DefaultAzureCredential", client_id |-> ""]]
    [] OTHER -> [raises |-> "ValueError", credential |-> NoCredential]

\* Variant: no arm of its own for ClientAuthenticationError.
AuthErrorFor_Generic(error) ==
  CASE error = "EnvironmentError" -> "Configuration error"
    [] error = "ValueError" -> "Invalid configuration"
    [] OTHER -> "Unexpected error getting credentials"

\* The except arms of lines 59-76: the message of the ConnectionError raised.
AuthErrorFor(error) ==
  CASE error = "ClientAuthenticationError" -> "Azure authentication failed"
    [] error = "EnvironmentError" -> "Configuration error"
    [] error = "ValueError" -> "Invalid configuration"
    [] OTHER -> "Unexpected error getting credentials"

\* Only the last arm closes credential_instance (lines 71-73).
ClosesOnError(error) ==
  error \notin {"ClientAuthenticationError", "EnvironmentError", "ValueError"}

\* Variant: CancelledError as a subclass of Exception.
ExceptionArmCatches_All(error) == TRUE

\* `except Exception` (auth.py line 69, trigger_automation_runbooks.py lines
\* 62 and 167, server.py line 95): asyncio.CancelledError is a BaseException
\* and passes it.
ExceptionArmCatches(error) == error # "CancelledError"

\* get_credential from its call to its await of get_token (lines 23-55).
GetCredentialStarts(auth_type, env) ==
  LET setup == CredentialSetup(auth_type, env)
  IN /\ env_read' = env
     /\ credential' = setup.credential
     /\ credsConstructed' = credsConstructed + (IF setup.raises = "" THEN 1 ELSE 0)
     /\ auth_outcome' = IF setup.raises = "" THEN auth_outcome
                        ELSE AuthErrorFor(setup.raises)
     /\ tokenRequests' = tokenRequests + (IF setup.raises = "" THEN 1 ELSE 0)
     /\ resourceLog' = resourceLog

\* ---------------------------------------------------- _handle_azure_operation
\* line 53
EffectiveAuthType(auth_type) == IF auth_type # "" THEN auth_type ELSE "default"

\* line 54
ValidAuthType(auth_type) == auth_type \in {"default", "spn", "identity"}

ErrorResponse(ctx, tag, detail) ==
  [ctx |-> ctx, kind |-> "json", error |-> Text(tag, detail, 0), body |-> "error"]

\* the except arms of lines 83-98
HandlerErrorResponse(error, detail) ==
  CASE error = "ConnectionError" ->
         ErrorResponse("error", "Error connecting or authenticating with Azure", detail)
    [] error = "HttpResponseError" -> ErrorResponse("error", "Azure API Error", detail)
    [] error = "ValueError" -> ErrorResponse("error", "Invalid value", detail)
    [] OTHER -> ErrorResponse("error", "An unexpected error occurred", detail)

\* Variant: a job that did not complete is reported as a failed operation.
Classify_JobFailureIsError(res) ==
  IF res.kind = "Error" \/ (res.kind = "JobResult" /\ res.status # "Completed")
  THEN [ctx |-> "error", kind |-> "json", error |-> res.error_summary, body |-> "result"]
  ELSE [ctx |-> "info", kind |-> "json", error |-> None, body |-> "result"]

\* lines 68-78: the result of the logic function is reported and dumped
Classify(res) ==
  IF res.kind = "Error"
  THEN [ctx |-> "error", kind |-> "json", error |-> res.Error, body |-> "result"]
  ELSE [ctx |-> "info", kind |-> "json", error |-> None, body |-> "result"]

\* The arguments the logic function is called with: the tool replaces an
\* empty account or runbook name by its default (server.py lines 304-305).
LogicArgs ==
  IF entry = "tool"
  THEN [request EXCEPT
          !.automation_account_name = IF @ # "" THEN @ ELSE "UE2PIAC018AAA03",
          !.runbook_name = IF @ # "" THEN @ ELSE "VMPowerStatus"]
  ELSE request

\* Variant: the subscription id is not checked.
HandlerStarts_NoSubscriptionCheck(req) ==
  LET auth == EffectiveAuthType(req.auth_type)
  IN IF ~ValidAuthType(auth)
     THEN /\ response' = ErrorResponse("error", "Invalid auth_type", req.auth_type)
          /\ failure' = "auth_type"
          /\ hpc' = "finished"
          /\ UNCHANGED <<env_read, credential, credsConstructed, tokenRequests,
                         resourceLog, auth_outcome>>
     ELSE \E env \in EnvsFor(auth) :
            /\ GetCredentialStarts(auth, env)
            /\ IF CredentialSetup(auth, env).raises = ""
               THEN /\ hpc' = "probe"
                    /\ UNCHANGED <<response, failure>>
               ELSE /\ hpc' = "finished"
                    /\ failure' = "credential"
                    /\ response' = HandlerErrorResponse("ConnectionError",
                                     AuthErrorFor(CredentialSetup(auth, env).raises))

\* _handle_azure_operation from its call to its first await (lines 41-64).
HandlerStarts(req) ==
  LET auth == EffectiveAuthType(req.auth_type)
  IN IF req.subscription_id = ""
     THEN /\ response' = ErrorResponse("error", "Azure Subscription ID is required.", "")
          /\ failure' = "subscription"
          /\ hpc' = "finished"
          /\ UNCHANGED <<env_read, credential, credsConstructed, tokenRequests,
                         resourceLog, auth_outcome>>
     ELSE IF ~ValidAuthType(auth)
     THEN /\ response' = ErrorResponse("error", "Invalid auth_type", req.auth_type)
          /\ failure' = "auth_type"
          /\ hpc' = "finished"
          /\ UNCHANGED <<env_read, credential, credsConstructed, tokenRequests,
                         resourceLog, auth_outcome>>
     ELSE \E env \in EnvsFor(auth) :
            /\ GetCredentialStarts(auth, env)
            /\ IF CredentialSetup(auth, env).raises = ""
               THEN /\ hpc' = "probe"
                    /\ UNCHANGED <<response, failure>>
               ELSE /\ hpc' = "finished"
                    /\ failure' = "credential"
                    /\ response' = HandlerErrorResponse("ConnectionError",
                                     AuthErrorFor(CredentialSetup(auth, env).raises))

\* trigger_vm_power_status_runbook, server.py lines 298-320
ToolCall ==
  /\ entry = "tool" /\ hpc = "entry"
  /\ \E req \in Requests :
       /\ request' = req
       /\ IF req.resource_group_name = "" \/ req.vm_name = ""
          THEN /\ response' = ErrorResponse("none",
                                IF req.resource_group_name = ""
                                THEN "automation_resource_group_name is required."
                                ELSE "vm_name_parameter is required.", "")
               /\ failure' = "argument"
               /\ hpc' = "finished"
               /\ UNCHANGED <<env_read, credential, credsConstructed, tokenRequests,
                              resourceLog, auth_outcome>>
          ELSE HandlerStarts(req)
  /\ UNCHANGED <<entry, cancelledAt, probe_raised, logic_args, orchestrationVars>>

\* _handle_azure_operation called with the runbook logic and any arguments
HandlerCall ==
  /\ entry = "handler" /\ hpc = "entry"
  /\ \E req \in Requests :
       /\ request' = req
       /\ HandlerStarts(req)
  /\ UNCHANGED <<entry, cancelledAt, probe_raised, logic_args, orchestrationVars>>

\* get_credential called by itself with any auth_type
GetCredentialCall ==
  /\ entry = "get_credential" /\ hpc = "entry"
  /\ \E auth \in AuthTypes :
       /\ request' = [NoRequest EXCEPT !.auth_type = auth]
       /\ \E env \in EnvsFor(auth) :
            /\ GetCredentialStarts(auth, env)
            /\ hpc' = IF CredentialSetup(auth, env).raises = "" THEN "probe" ELSE "finished"
  /\ UNCHANGED <<entry, response, failure, cancelledAt, probe_raised, logic_args,
                 orchestrationVars>>

\* trigger_vm_power_status_runbook_logic from its call to the await of
\* job.create (lines 182-195, with lines 75-90 of the orchestration), entered
\* inside `async with credential` (server.py lines 65-66).
LogicStarts ==
  LET args == LogicArgs
      missing == IF args.resource_group_name = ""
                 THEN "Resource group name for the Automation Account is required."
                 ELSE "VMName parameter is required for the VMPowerStatus runbook."
  IN /\ logic_args' = args
     /\ IF args.resource_group_name = "" \/ args.vm_name = ""
        THEN /\ result' = [NoResult EXCEPT !.kind = "Error", !.Error = Text(missing, "", 0)]
             /\ response' = Classify(result')
             /\ failure' = "argument"
             /\ resourceLog' = Append(resourceLog, "close_credential")
             /\ hpc' = "finished"
        ELSE \/ /\ hpc' = "logic"
                /\ resourceLog' = Append(resourceLog, "open_client")
                /\ UNCHANGED <<result, response, failure>>
             \/ \E error \in LogicErrors :
                  /\ response' = HandlerErrorResponse(error, "")
                  /\ failure' = "client"
                  /\ resourceLog' = Append(resourceLog, "close_credential")
                  /\ hpc' = "finished"
                  /\ result' = result

\* await credential_instance.get_token(...) returns or raises (auth.py lines
\* 55-76); on success the handler goes on to the logic function.
Probe ==
  /\ hpc = "probe"
  /\ \/ /\ auth_outcome' = "returned"
        /\ probe_raised' = probe_raised
        /\ IF entry = "get_credential"
           THEN /\ hpc' = "finished"
                /\ UNCHANGED <<result, response, failure, resourceLog, logic_args>>
           ELSE LogicStarts
     \/ \E error \in ProbeErrors :
          /\ auth_outcome' = AuthErrorFor(error)
          /\ probe_raised' = error
          /\ logic_args' = logic_args
          /\ resourceLog' = IF ClosesOnError(error) THEN Append(resourceLog, "close_credential")
                         ELSE resourceLog
          /\ hpc' = "finished"
          /\ result' = result
          /\ IF entry = "get_credential"
             THEN UNCHANGED <<response, failure>>
             ELSE /\ response' = HandlerErrorResponse("ConnectionError", AuthErrorFor(error))
                  /\ failure' = "credential"
  /\ UNCHANGED <<entry, request, env_read, credential, credsConstructed, cancelledAt,
                 tokenRequests, pc, job_guid, poll_interval_seconds, job_timeout_seconds,
                 current_job_details, job_final_status, total_wait_time,
                 statusLog, createCalls, getCalls, sleeps, streamCalls,
                 stream_fetch, raised>>

\* The orchestration has returned or was cancelled: `async with
\* AutomationClient(...)` is left (trigger_automation_runbooks.py line 194).
ClientExit ==
  /\ hpc = "logic"
  /\ pc \in {"done", "cancelled"}
  /\ resourceLog' = Append(resourceLog, "close_client")
  /\ hpc' = "client_closed"
  /\ UNCHANGED <<entry, request, env_read, credential, credsConstructed,
                 tokenRequests, auth_outcome, response, failure, cancelledAt,
                 probe_raised, logic_args, orchestrationVars>>

\* Variant: the credential is closed by a call after the logic function
\* instead of by `async with`.
HandlerReturns_NoCloseOnCancel ==
  /\ hpc = "client_closed"
  /\ IF pc = "cancelled"
     THEN /\ hpc' = "cancelled"
          /\ response' = response
          /\ resourceLog' = resourceLog
     ELSE /\ hpc' = "finished"
          /\ response' = Classify(result)
          /\ resourceLog' = Append(resourceLog, "close_credential")
  /\ UNCHANGED <<entry, request, env_read, credential, credsConstructed,
                 tokenRequests, auth_outcome, failure, cancelledAt,
                 probe_raised, logic_args, orchestrationVars>>

\* Back in the handler: the result is reported (lines 68-78) and `async with
\* credential` is left (line 65); a CancelledError only leaves the block.
HandlerReturns ==
  /\ hpc = "client_closed"
  /\ resourceLog' = Append(resourceLog, "close_credential")
  /\ IF pc = "cancelled"
     THEN /\ hpc' = "cancelled"
          /\ response' = response
     ELSE /\ hpc' = "finished"
          /\ response' = Classify(result)
  /\ UNCHANGED <<entry, request, env_read, credential, credsConstructed,
                 tokenRequests, auth_outcome, failure, cancelledAt,
                 probe_raised, logic_args, orchestrationVars>>

\* The caller cancels the task while it is suspended in an await: the probe,
\* job.create, asyncio.sleep, job.get or the stream fetch.  The
\* CancelledError is raised at that await.
Cancel ==
  /\ cancelledAt = "none"
  /\ \/ /\ hpc = "probe"
        /\ cancelledAt' = "probe"
        /\ IF ExceptionArmCatches("CancelledError")
           THEN /\ auth_outcome' = AuthErrorFor("CancelledError")
                /\ resourceLog' = Append(resourceLog, "close_credential")
                /\ hpc' = "finished"
                /\ response' = IF entry = "get_credential" THEN response
                               ELSE HandlerErrorResponse("ConnectionError",
                                      AuthErrorFor("CancelledError"))
           ELSE /\ hpc' = "cancelled"
                /\ UNCHANGED <<auth_outcome, resourceLog, response>>
        /\ UNCHANGED <<pc, result, raised>>
     \/ /\ hpc = "logic"
        /\ pc \in {"create", "sleep", "get", "streams"}
        /\ cancelledAt' = pc
        /\ IF ExceptionArmCatches("CancelledError")
           THEN /\ pc' = "done"
                /\ IF pc = "streams"
                   THEN /\ result' = [result EXCEPT !.output_streams =
                                        <<FetchErrorRecord("CancelledError")>>]
                        /\ raised' = raised
                   ELSE /\ result' = ErrorResult("CancelledError")
                        /\ raised' = pc
           ELSE /\ pc' = "cancelled"
                /\ UNCHANGED <<result, raised>>
        /\ UNCHANGED <<hpc, auth_outcome, resourceLog, response>>
  /\ UNCHANGED <<entry, request, env_read, credential, credsConstructed,
                 tokenRequests, failure, probe_raised, logic_args,
                 job_guid, poll_interval_seconds, job_timeout_seconds,
                 current_job_details, job_final_status, total_wait_time,
                 statusLog, createCalls, getCalls, sleeps, streamCalls,
                 stream_fetch>>

\* A call of the tool, of the handler or of get_credential; the logic
\* function passes no poll interval and no budget, so that the defaults of
\* the orchestration apply.
InitTool ==
  /\ SingleCall
  /\ InitLocals
  /\ poll_interval_seconds = DefaultPollInterval
  /\ job_timeout_seconds = DefaultTimeout
  /\ \E e \in {"tool", "handler", "get_credential"} : InitPath(e, "entry")

NextTool ==
  \/ ToolCall /\ UNCHANGED concurrentVars
  \/ HandlerCall /\ UNCHANGED concurrentVars
  \/ GetCredentialCall /\ UNCHANGED concurrentVars
  \/ Probe /\ UNCHANGED concurrentVars
  \/ hpc = "logic" /\ JobCreate /\ Alone
  \/ hpc = "logic" /\ Sleep /\ Alone
  \/ hpc = "logic" /\ JobGet /\ Alone
  \/ hpc = "logic" /\ JobStreams /\ Alone
  \/ ClientExit /\ UNCHANGED concurrentVars
  \/ HandlerReturns /\ UNCHANGED concurrentVars
  \/ Cancel /\ UNCHANGED concurrentVars

SpecTool == InitTool /\ [][NextTool]_vars

\* ------------------------------------------- several calls in one event loop
\* Two tool calls run as two tasks of the event loop.  Each call of
\* _create_and_monitor_runbook_job has a frame of its own (its parameters and
\* the locals job_guid, current_job_details, job_final_status,
\* total_wait_time, result); the modules hold nothing but their loggers.
Procs == {1, 2}

\* The responses the control plane has ready for one job: the response to
\* job.create, then the responses to the job.get calls (the last one repeats).
ScriptLen == 2
ScriptResponses == {"Running", "Failed", "HttpResponseError"}
StreamScripts ==
  { NoFetch,
    [records |-> <<>>, failAt |-> 0, error |-> "HttpResponseError"] }

RECURSIVE SeqsOfLen(_, _)
SeqsOfLen(S, n) ==
  IF n = 0 THEN {<<>>}
  ELSE {Append(s, x) : s \in SeqsOfLen(S, n - 1), x \in S}

JobScripts == [responses : SeqsOfLen(ScriptResponses, ScriptLen), streams : StreamScripts]

\* The budgets of the concurrent calls: a first poll that times out, or a
\* second one.
TaskBudgets == {1, 2}

\* The frame of a call before its first await (lines 66-99).
InitialFrame(guid, interval, budget) ==
  [pc |-> "create",
   job_guid |-> guid,
   poll_interval_seconds |-> interval,
   job_timeout_seconds |-> budget,
   current_job_details |-> NoDetails,
   job_final_status |-> "",
   total_wait_time |-> 0,
   result |-> NoResult,
   getCalls |-> 0]

\* Lines 98 / 118 and 102-154 on the frame f: StatusArrives as a function of
\* the frame.
FrameAfterStatus(f, details, wait) ==
  IF LoopExits(details.status, wait, f.job_timeout_seconds)
  THEN LET final == ExitStatus(details.status, wait, f.job_timeout_seconds)
       IN [f EXCEPT !.current_job_details = details,
                    !.total_wait_time = wait,
                    !.job_final_status = final,
                    !.result = ComposeResult(final, details, f.job_guid,
                                             f.job_timeout_seconds),
                    !.pc = IF FetchesStreams(final) THEN "streams" ELSE "done"]
  ELSE [f EXCEPT !.current_job_details = details,
                 !.total_wait_time = wait,
                 !.job_final_status = details.status,
                 !.pc = "sleep"]

\* The except arms (lines 159-170) on the frame f.
FrameAfterRaise(f, error) ==
  [f EXCEPT !.result = ErrorResult(error), !.pc = "done"]

\* The k-th response of a job's script.
ResponseAt(job, k) ==
  job.responses[IF k <= Len(job.responses) THEN k ELSE Len(job.responses)]

FrameAfterResponse(f, answer, stamp, wait) ==
  IF answer \in ApiErrors
  THEN FrameAfterRaise(f, answer)
  ELSE FrameAfterStatus(f, JobDetails(answer, "", stamp), wait)

\* Variant: a new job id is drawn before every poll.
StepFrame_NewIdPerPoll(f, job) ==
  CASE f.pc = "create" -> FrameAfterResponse(f, ResponseAt(job, 1), 0, 0)
    [] f.pc = "sleep" ->
         [f EXCEPT !.total_wait_time = NextWait(@, f.poll_interval_seconds),
                   !.job_guid = CHOOSE g \in JobIds : g # f.job_guid,
                   !.pc = "get"]
    [] f.pc = "get" ->
         FrameAfterResponse([f EXCEPT !.getCalls = @ + 1],
                            ResponseAt(job, f.getCalls + 2),
                            f.getCalls + 1, f.total_wait_time)
    [] f.pc = "streams" ->
         [f EXCEPT !.result.output_streams =
                     get_job_output_content(job.streams.records,
                                            job.streams.failAt, job.streams.error),
                   !.pc = "done"]
    [] OTHER -> f

\* One step of the coroutine, from the await the frame is suspended at to
\* the next one, against the responses `job` of the control plane.
StepFrame(f, job) ==
  CASE f.pc = "create" -> FrameAfterResponse(f, ResponseAt(job, 1), 0, 0)
    [] f.pc = "sleep" ->
         [f EXCEPT !.total_wait_time = NextWait(@, f.poll_interval_seconds),
                   !.pc = "get"]
    [] f.pc = "get" ->
         FrameAfterResponse([f EXCEPT !.getCalls = @ + 1],
                            ResponseAt(job, f.getCalls + 2),
                            f.getCalls + 1, f.total_wait_time)
    [] f.pc = "streams" ->
         [f EXCEPT !.result.output_streams =
                     get_job_output_content(job.streams.records,
                                            job.streams.failAt, job.streams.error),
                   !.pc = "done"]
    [] OTHER -> f

\* Variant: the job name is kept in one module-level variable, set by the
\* call that started first.
JobNameOf_ModuleLevel(p) == tasks[1].job_guid

\* The job name the calls of task p carry: job_name=job_guid of its own
\* frame (lines 75, 92, 116; line 140 / 146 for the stream fetch).
JobNameOf(p) == tasks[p].job_guid

\* The call task p is suspended at, with the job name it was issued for
\* (job_name of lines 92, 116 and 30).
CallRecord(p) == [task |-> p, call |-> tasks[p].pc, job_name |-> JobNameOf(p)]

\* The frames after the event loop resumed task p: its awaited call
\* returned or raised, and it ran to its next await.
Resumed(p) ==
  [tasks EXCEPT ![p] = StepFrame(tasks[p], controlPlane[JobNameOf(p)])]

\* job.create of one task returns or raises
TaskCreate ==
  \E p \in Procs :
    /\ tasks[p].pc = "create"
    /\ tasks' = Resumed(p)
    /\ calls' = calls \cup {CallRecord(p)}
    /\ UNCHANGED <<controlPlane, orchestrationVars, pathVars>>

\* asyncio.sleep of one task is over
TaskSleep ==
  \E p \in Procs :
    /\ tasks[p].pc = "sleep"
    /\ tasks' = Resumed(p)
    /\ UNCHANGED <<controlPlane, calls, orchestrationVars, pathVars>>

\* job.get of one task returns or raises
TaskGet ==
  \E p \in Procs :
    /\ tasks[p].pc = "get"
    /\ tasks' = Resumed(p)
    /\ calls' = calls \cup {CallRecord(p)}
    /\ UNCHANGED <<controlPlane, orchestrationVars, pathVars>>

\* _get_job_output_content of one task returns
TaskStreams ==
  \E p \in Procs :
    /\ tasks[p].pc = "streams"
    /\ tasks' = Resumed(p)
    /\ calls' = calls \cup {CallRecord(p)}
    /\ UNCHANGED <<controlPlane, orchestrationVars, pathVars>>

\* uuid4 gives every call a job name of its own.
InitConcurrent ==
  /\ tasks \in [Procs -> {InitialFrame(guid, interval, budget) :
                           guid \in JobIds, interval \in Intervals,
                           budget \in TaskBudgets}]
  /\ \A p, q \in Procs : p # q => tasks[p].job_guid # tasks[q].job_guid
  /\ controlPlane \in [JobIds -> JobScripts]
  /\ calls = {}
  /\ pc = "done"
  /\ job_guid = "guid-1"
  /\ poll_interval_seconds = DefaultPollInterval
  /\ job_timeout_seconds = DefaultTimeout
  /\ current_job_details = NoDetails
  /\ job_final_status = ""
  /\ total_wait_time = 0
  /\ result = NoResult
  /\ statusLog = <<>>
  /\ createCalls = 0 /\ getCalls = 0 /\ sleeps = 0 /\ streamCalls = 0
  /\ stream_fetch = NoFetch
  /\ raised = "none"
  /\ InitPath("concurrent", "logic")

NextConcurrent == TaskCreate \/ TaskSleep \/ TaskGet \/ TaskStreams

SpecConcurrent == InitConcurrent /\ [][NextConcurrent]_vars

TypeOK ==
  /\ pc \in {"create", "sleep", "get", "streams", "done", "cancelled"}
  /\ job_guid \in JobIds
  /\ total_wait_time \in Nat
  /\ result.kind \in {"None", "JobResult", "Error"}
  /\ raised \in {"none", "create", "get"}

\* ------------------------------------------------------------ properties
\* The statuses the specification names, and its terminal ones.
KnownStatuses == {"Queued", "Running", "Completed", "Failed", "Suspended", "Stopped"}
ControlPlaneTerminal == {"Completed", "Failed", "Suspended", "Stopped"}

\* The orchestration has returned a JobResult (not an {"Error": ...} dict).
Returned == pc = "done" /\ result.kind = "JobResult"

LastReported == statusLog[Len(statusLog)]

\* The statuses returned by job.get, in order (the creation response left out).
PollLog == IF statusLog = <<>> THEN <<>> ELSE Tail(statusLog)

\* C1: after a successful submission, a raising job.get still yields a
\* JobResult with the job id, the last known state and an error_summary
\* noting the polling failure.
C1_PollFailureKeepsJobIdentity ==
  (pc = "done" /\ raised = "get") =>
     /\ result.kind = "JobResult"
     /\ result.job_id = job_guid
     /\ result.status = LastReported
     /\ result.error_summary # None

\* C2: every returned JobResult has at least one output record; when the
\* stream fetch yields zero records without failing, the output is exactly
\* one Info-kind placeholder.
C2_OutputNeverEmpty ==
  Returned =>
     /\ Len(result.output_streams) >= 1
     /\ (streamCalls = 1 /\ stream_fetch.failAt < 0 /\ stream_fetch.records = <<>>) =>
           /\ Len(result.output_streams) = 1
           /\ result.output_streams[1].stream_type = "Info"

C2_Witness ==
  /\ Returned
  /\ streamCalls = 1 /\ stream_fetch.failAt < 0 /\ stream_fetch.records = <<>>
  /\ result.output_streams[1].stream_type = "Info"

\* C3: in every returned JobResult error_summary is set if and only if the
\* final state is not Completed.
C3_ErrorSummaryIffNotCompleted ==
  Returned => (result.error_summary # None <=> result.status # "Completed")

C3_Witness ==
  /\ Returned
  /\ result.status = "Suspended"
  /\ current_job_details.exception = ""
  /\ result.error_summary # None

\* C4 (as stated): the stream fetch is issued after every terminal state,
\* the locally synthesized TimedOut included.
C4_FetchAfterEveryTerminalState ==
  (Returned /\ result.status \in ControlPlaneTerminal \cup {"TimedOut"}) => streamCalls = 1

\* C4 (amended): the stream fetch is issued exactly once after a terminal
\* status of the control plane and never before the loop has ended; after
\* TimedOut no fetch is issued and the output is one Error-kind record whose
\* summary is the timeout error_summary.
C4_FetchOnlyAfterControlPlaneTerminal ==
  /\ streamCalls >= 1 => (Returned /\ result.status \in ControlPlaneTerminal)
  /\ Returned =>
       /\ result.status \in ControlPlaneTerminal => streamCalls = 1
       /\ result.status = "TimedOut" =>
            /\ streamCalls = 0
            /\ Len(result.output_streams) = 1
            /\ result.output_streams[1].stream_type = "Error"
            /\ result.output_streams[1].summary = result.error_summary
            /\ result.error_summary.budget = job_timeout_seconds

C4_Witness ==
  /\ Returned
  /\ result.status = "TimedOut"
  /\ getCalls >= 1
  /\ streamCalls = 0
  /\ result.output_streams[1].stream_type = "Error"

\* job.get answered Running n times and then Completed.
RunningThenCompleted(n) ==
  /\ Len(PollLog) = n + 1
  /\ \A i \in 1..n : PollLog[i] = "Running"
  /\ PollLog[n + 1] = "Completed"

\* C5 (as stated): Running for N poll ticks, then Completed: N+1 status
\* calls and a cumulative wait of N times the poll interval.
C5_WaitIsNIntervals ==
  \A n \in 0..Len(statusLog) :
    (Returned /\ RunningThenCompleted(n)) =>
       /\ getCalls = n + 1
       /\ total_wait_time = n * poll_interval_seconds

\* C5 (amended): Running for N poll ticks, then Completed: N+1 status calls
\* and a cumulative wait of (N+1) times the poll interval, since every
\* status call is preceded by a wait; this happens only if N times the
\* interval is below the budget.
C5_WaitIsNPlusOneIntervals ==
  \A n \in 0..Len(statusLog) :
    (Returned /\ RunningThenCompleted(n)) =>
       /\ getCalls = n + 1
       /\ total_wait_time = (n + 1) * poll_interval_seconds
       /\ n * poll_interval_seconds < job_timeout_seconds

C5_Witness ==
  /\ Returned
  /\ RunningThenCompleted(2)
  /\ getCalls = 3

\* No response carried a terminal status.
NeverTerminal == \A i \in 1..Len(statusLog) : statusLog[i] \notin ControlPlaneTerminal

\* C6 (as stated): with no terminal status ever reported, the loop ends as
\* TimedOut at a wait W with budget <= W < budget + interval, for every
\* budget.
C6_TimeoutWithinOneInterval ==
  (Returned /\ NeverTerminal) =>
     /\ result.status = "TimedOut"
     /\ job_timeout_seconds <= total_wait_time
     /\ total_wait_time < job_timeout_seconds + poll_interval_seconds

\* C6 (amended): the same for every budget >= 0; with a negative budget the
\* loop ends as TimedOut without any wait (W = 0).
C6_TimeoutWithinOneIntervalNonNegative ==
  (Returned /\ NeverTerminal) =>
     /\ result.status = "TimedOut"
     /\ job_timeout_seconds <= total_wait_time
     /\ job_timeout_seconds >= 0 =>
          total_wait_time < job_timeout_seconds + poll_interval_seconds
     /\ job_timeout_seconds < 0 => (total_wait_time = 0 /\ getCalls = 0)

C6_Witness ==
  /\ Returned
  /\ NeverTerminal
  /\ job_timeout_seconds = 3
  /\ poll_interval_seconds = 2
  /\ total_wait_time = 4

\* C7 (as stated): once the wait has reached the budget with no terminal
\* status seen, the final state is TimedOut whatever the status call of that
\* tick reports.
C7_BudgetReachedForcesTimedOut ==
  (Returned /\ getCalls >= 1 /\ total_wait_time >= job_timeout_seconds) =>
     result.status = "TimedOut"

\* C7 (amended): a terminal status is final whenever it is fetched, also on
\* the tick at which the wait reaches or passes the budget; the final state
\* is TimedOut exactly when the last reported status is not terminal, and
\* then the wait has reached the budget, whichever non-terminal status was
\* reported last.
C7_TimedOutOnlyOverNonTerminal ==
  Returned =>
     /\ LastReported \in ControlPlaneTerminal => result.status = LastReported
     /\ LastReported \notin ControlPlaneTerminal =>
          /\ result.status = "TimedOut"
          /\ total_wait_time >= job_timeout_seconds

C7_Witness ==
  /\ Returned
  /\ getCalls >= 1
  /\ total_wait_time >= job_timeout_seconds
  /\ LastReported = "Completed"
  /\ result.status = "Completed"

\* C8: a failing stream fetch, at the first record or later, leaves the
\* orchestration returning a JobResult with the final state the control
\* plane reported and exactly one Error-kind output record.
C8_FetchFailureKeepsClassification ==
  (streamCalls = 1 /\ stream_fetch.failAt >= 0) =>
     /\ Returned
     /\ raised = "none"
     /\ result.status = LastReported
     /\ result.status \in ControlPlaneTerminal
     /\ Len(result.output_streams) = 1
     /\ result.output_streams[1].stream_type = "Error"
     /\ result.output_streams[1].stream_id = "None"

C8_Witness ==
  /\ Returned
  /\ streamCalls = 1
  /\ stream_fetch.failAt >= 1
  /\ result.status = "Completed"
  /\ Len(result.output_streams) = 1

\* C9: the loop exits on the first terminal status, in whatever order the
\* statuses come: no wait or status call follows a terminal status, the
\* final state is that status, and a terminal creation response means zero
\* status calls and zero waits.
C9_ExitOnFirstTerminal ==
  /\ \A i \in 1..Len(statusLog) :
        statusLog[i] \in ControlPlaneTerminal =>
           /\ i = Len(statusLog)
           /\ pc \in {"streams", "done"}
           /\ job_final_status = statusLog[i]
           /\ result.kind = "JobResult" /\ result.status = statusLog[i]
  /\ (statusLog # <<>> /\ statusLog[1] \in ControlPlaneTerminal) =>
        (getCalls = 0 /\ sleeps = 0 /\ total_wait_time = 0)

C9_Witness ==
  /\ Returned
  /\ statusLog = <<"Running", "Queued", "Stopped">>
  /\ result.status = "Stopped"

\* C10: a status outside Queued, Running, Completed, Failed, Suspended,
\* Stopped is surfaced as an explicit unknown-status outcome and never ends
\* classified as a known state or as TimedOut.
C10_UnknownStatusSurfaced ==
  (Returned /\ LastReported \notin KnownStatuses) =>
     result.status \notin KnownStatuses \cup {"TimedOut"}

\* C13: no control-plane call is retried: job.create is called at most once,
\* and once a create or status-fetch call has raised, the failure is the
\* returned error result and no create, status-fetch or stream-fetch call
\* (and no wait) follows; a rejected submission starts no poll loop.
C13_NoRetry ==
  /\ [](/\ createCalls <= 1
        /\ raised # "none" =>
             /\ pc = "done"
             /\ result.kind = "Error"
             /\ streamCalls = 0
        /\ raised = "create" => (getCalls = 0 /\ sleeps = 0 /\ statusLog = <<>>)
        /\ raised = "get" => (getCalls = Len(statusLog) /\ sleeps = getCalls))
  /\ [][raised # "none" =>
          UNCHANGED <<createCalls, getCalls, sleeps, streamCalls, result>>]_vars

C13_Witness ==
  /\ raised = "get"
  /\ getCalls = 2
  /\ pc = "done"
  /\ result.kind = "Error"

\* C20: error_summary is the exception text reported by the control plane
\* when the final state is Failed, Suspended or Stopped and that text is
\* there, a message naming the configured budget when the final state is
\* TimedOut, and unset when the final state is Completed.
C20_ErrorSummaryContent ==
  Returned =>
     /\ (result.status \in {"Failed", "Suspended", "Stopped"}
           /\ current_job_details.exception # "") =>
          /\ result.error_summary.tag = "exception"
          /\ result.error_summary.text = current_job_details.exception
     /\ result.status = "TimedOut" =>
          /\ result.error_summary.tag = "monitoring timed out"
          /\ result.error_summary.budget = job_timeout_seconds
     /\ result.status = "Completed" => result.error_summary = None

C20_Witness ==
  /\ Returned
  /\ result.status = "Failed"
  /\ current_job_details.exception = "boom"
  /\ result.error_summary.text = "boom"

\* ------------------------------------- properties of the path (SpecTool)
\* The call came in through the tool or through _handle_azure_operation.
ThroughHandler == entry \in {"tool", "handler"} /\ hpc # "entry"

CountIn(log, x) == Cardinality({i \in 1..Len(log) : log[i] = x})

\* C11: an empty runbook name, resource group name or automation
\* account name fails with an argument error before any network call: no
\* token probe, no job creation, no status fetch.
C11_EmptyNamesRejectedBeforeNetwork ==
  (ThroughHandler
     /\ (request.runbook_name = "" \/ request.resource_group_name = ""
           \/ request.automation_account_name = "")) =>
     /\ tokenRequests = 0
     /\ createCalls = 0
     /\ getCalls = 0
     /\ hpc = "finished" => failure = "argument"

\* What does hold for C11's inputs: the tool rejects an empty resource group
\* name or VM name before any network call, and replaces an empty runbook
\* name or account name by its default; the logic function, which runs after
\* the token probe, rejects an empty resource group name or VM name before
\* any job creation or status fetch, and checks neither of the other names.
C11_EmptyScopeRejectedNamesDefaulted ==
  /\ (entry = "tool" /\ hpc # "entry"
        /\ (request.resource_group_name = "" \/ request.vm_name = "")) =>
       /\ hpc = "finished"
       /\ failure = "argument"
       /\ response.body = "error"
       /\ credsConstructed = 0 /\ tokenRequests = 0
       /\ createCalls = 0 /\ getCalls = 0 /\ streamCalls = 0
  /\ (entry = "tool" /\ CountIn(resourceLog, "open_client") = 1) =>
       /\ logic_args.runbook_name =
            IF request.runbook_name = "" THEN "VMPowerStatus" ELSE request.runbook_name
       /\ logic_args.automation_account_name =
            IF request.automation_account_name = "" THEN "UE2PIAC018AAA03"
            ELSE request.automation_account_name
  /\ (entry = "handler" /\ auth_outcome = "returned"
        /\ (request.resource_group_name = "" \/ request.vm_name = "")) =>
       /\ hpc = "finished"
       /\ failure = "argument"
       /\ result.kind = "Error"
       /\ response.ctx = "error"
       /\ tokenRequests = 1
       /\ createCalls = 0 /\ getCalls = 0 /\ streamCalls = 0

\* job.create was called for an empty runbook name.
C11_EmptyRunbookNameSubmitted ==
  /\ entry = "handler"
  /\ request.runbook_name = ""
  /\ logic_args.runbook_name = ""
  /\ tokenRequests = 1
  /\ createCalls = 1

\* C12: a failure before the submission (missing subscription id, invalid
\* auth type, failed argument validation, failed credential acquisition or
\* probe) ends the call with a structured error result, and job.create,
\* job.get and the stream fetch are never called in that run.
C12_NoJobAfterEarlyFailure ==
  (ThroughHandler
     /\ (\/ request.subscription_id = ""
         \/ request.auth_type \notin {"", "default", "spn", "identity"}
         \/ request.resource_group_name = ""
         \/ request.vm_name = ""
         \/ auth_outcome \notin {"none", "returned"})) =>
     /\ createCalls = 0 /\ getCalls = 0 /\ streamCalls = 0 /\ sleeps = 0
     /\ CountIn(resourceLog, "open_client") = 0
     /\ hpc \in {"probe", "finished", "cancelled"}
     /\ hpc = "finished" =>
          /\ failure # "none"
          /\ response.kind = "json"
          /\ response.error # None
          /\ response.ctx \in {"error", "none"}

C12_Witness ==
  /\ entry = "tool"
  /\ probe_raised = "ClientAuthenticationError"
  /\ failure = "credential"
  /\ hpc = "finished"
  /\ response.error # None
  /\ createCalls = 0

\* C14: a cancellation during the wait between polls or during a status
\* call: no status call, no wait, no stream fetch and no other control-plane
\* call follows, and the except arms turn it neither into an error result
\* nor into a JobResult nor into a response of the handler.
C14_CancellationStopsPolling ==
  /\ [](cancelledAt \in {"sleep", "get"} =>
          /\ pc = "cancelled"
          /\ streamCalls = 0
          /\ result = NoResult
          /\ raised = "none"
          /\ response = NoResponse
          /\ hpc \in {"logic", "client_closed", "cancelled"})
  /\ [][(cancelledAt = "sleep" \/ cancelledAt = "get") =>
          UNCHANGED <<createCalls, getCalls, sleeps, streamCalls, statusLog>>]_vars

C14_Witness ==
  /\ cancelledAt = "get"
  /\ sleeps = 1
  /\ getCalls = 0
  /\ hpc = "cancelled"

\* C15: an auth type other than default, spn or identity: get_credential
\* fails before any credential is constructed and before any token request,
\* and _handle_azure_operation rejects it without calling get_credential.
C15_InvalidAuthTypeRejectedEarly ==
  /\ (entry = "get_credential" /\ hpc # "entry"
        /\ request.auth_type \notin {"default", "spn", "identity"}) =>
       /\ hpc = "finished"
       /\ auth_outcome = "Invalid configuration"
       /\ credsConstructed = 0 /\ credential = NoCredential
       /\ tokenRequests = 0
  /\ (ThroughHandler
        /\ request.auth_type \notin {"", "default", "spn", "identity"}) =>
       /\ hpc = "finished"
       /\ failure \in {"argument", "subscription", "auth_type"}
       /\ auth_outcome = "none" /\ env_read = NoEnv
       /\ credsConstructed = 0 /\ credential = NoCredential
       /\ tokenRequests = 0

C15_Witness ==
  /\ entry = "get_credential"
  /\ request.auth_type = "bogus"
  /\ hpc = "finished"
  /\ auth_outcome = "Invalid configuration"

\* C16: service principal with one of the three secrets absent or empty:
\* get_credential fails with the missing-configuration error, issues no
\* token request and constructs no credential of any kind.
C16_MissingSecretNoFallback ==
  (env_read.tenant_id # Unread
     /\ (env_read.tenant_id = "" \/ env_read.client_id = ""
           \/ env_read.client_secret = "")) =>
     /\ auth_outcome = "Configuration error"
     /\ tokenRequests = 0
     /\ credsConstructed = 0 /\ credential = NoCredential
     /\ hpc = "finished"
     /\ entry # "get_credential" => failure = "credential"

C16_Witness ==
  /\ env_read.tenant_id = "v" /\ env_read.client_id = "v"
  /\ env_read.client_secret = ""
  /\ auth_outcome = "Configuration error"
  /\ tokenRequests = 0

\* C17: a session is returned only after exactly one successful token probe
\* on it; a failed probe returns no session, and an authentication failure
\* of the probe surfaces as the authentication error, not as the generic
\* unexpected-error outcome.
C17_ProbeGuardsSession ==
  /\ tokenRequests <= 1
  /\ auth_outcome = "returned" =>
       /\ tokenRequests = 1 /\ credsConstructed = 1
       /\ credential # NoCredential
       /\ probe_raised = "none"
  /\ (logic_args # NoRequest \/ hpc \in {"logic", "client_closed"}) =>
       auth_outcome = "returned"
  /\ probe_raised # "none" =>
       /\ tokenRequests = 1
       /\ auth_outcome \notin {"none", "returned"}
       /\ hpc = "finished"
       /\ logic_args = NoRequest /\ createCalls = 0
  /\ probe_raised = "ClientAuthenticationError" =>
       /\ auth_outcome = "Azure authentication failed"
       /\ ThroughHandler => response.error.text = "Azure authentication failed"
  /\ (probe_raised # "none" /\ probe_raised # "ClientAuthenticationError") =>
       auth_outcome # "Azure authentication failed"

C17_Witness ==
  /\ probe_raised = "ClientAuthenticationError"
  /\ tokenRequests = 1
  /\ auth_outcome = "Azure authentication failed"
  /\ hpc = "finished"

\* C18: once _handle_azure_operation holds a session, the session is closed
\* exactly once on every exit path (JobResult, error result of the logic
\* function, exception of the logic function, cancellation), and an opened
\* AutomationClient is closed, once, before the credential is.
C18_ReleasedOnEveryExit ==
  /\ CountIn(resourceLog, "close_credential") <= 1
  /\ CountIn(resourceLog, "close_client") <= CountIn(resourceLog, "open_client")
  /\ (ThroughHandler /\ auth_outcome = "returned" /\ hpc \in {"finished", "cancelled"}) =>
       /\ CountIn(resourceLog, "close_credential") = 1
       /\ resourceLog \in {<<"close_credential">>,
                           <<"open_client", "close_client", "close_credential">>}

C18_Witness ==
  /\ hpc = "cancelled"
  /\ cancelledAt = "create"
  /\ resourceLog = <<"open_client", "close_client", "close_credential">>

\* ------------------------------- properties of concurrent calls
\* The frame task p would end with had it run alone against the responses
\* `job`.
RECURSIVE RunAlone(_, _)
RunAlone(f, job) ==
  IF f.pc = "done" THEN f ELSE RunAlone(StepFrame(f, job), job)

SoloFrame(p) ==
  RunAlone(InitialFrame(tasks[p].job_guid, tasks[p].poll_interval_seconds,
                        tasks[p].job_timeout_seconds),
           controlPlane[tasks[p].job_guid])

\* C19: under every interleaving of the create, wait, status-fetch and
\* stream-fetch steps of two orchestrations, each one stays on the course
\* it would take alone against the responses for its own job, so that its
\* result (job id, final state, cumulative wait, output) is the result of
\* the solo run; a step of one orchestration changes no frame but its own.
C19_InterleavingIsInvisible ==
  /\ [](\A p \in Procs :
          /\ RunAlone(tasks[p], controlPlane[tasks[p].job_guid]) = SoloFrame(p)
          /\ tasks[p].pc = "done" =>
               /\ tasks[p].result = SoloFrame(p).result
               /\ tasks[p].job_final_status = SoloFrame(p).job_final_status
               /\ tasks[p].total_wait_time = SoloFrame(p).total_wait_time
               /\ tasks[p].result.kind = "JobResult" =>
                    tasks[p].result.job_id = tasks[p].job_guid)
  /\ [][/\ Cardinality({p \in Procs : tasks'[p] # tasks[p]}) <= 1
        /\ controlPlane' = controlPlane]_vars

\* Both calls are in flight, suspended at different awaits, and their jobs
\* answer differently.
C19_Witness ==
  /\ tasks[1].pc = "get" /\ tasks[1].total_wait_time = 1
  /\ tasks[2].pc = "streams" /\ tasks[2].job_final_status = "Failed"
  /\ tasks[2].total_wait_time = 2
  /\ controlPlane[tasks[1].job_guid] # controlPlane[tasks[2].job_guid]

\* ------------------------------- properties of the result (Spec)
\* The stream fetch of the returned JobResult read `stream_fetch.records`
\* to the end.
StreamsCollected ==
  /\ Returned
  /\ streamCalls = 1
  /\ stream_fetch.failAt < 0
  /\ stream_fetch.records # <<>>

\* C21: the output of a JobResult holds one record per stream record the
\* control plane returned, in the order it returned them: not sorted by
\* time, and a record without a time stays at its place.
C21_OutputInReturnedOrder ==
  StreamsCollected =>
     /\ Len(result.output_streams) = Len(stream_fetch.records)
     /\ \A i \in 1..Len(stream_fetch.records) :
          /\ result.output_streams[i].stream_id = stream_fetch.records[i].id
          /\ result.output_streams[i].summary.text = stream_fetch.records[i].summary
          /\ result.output_streams[i].time = "None" <=> stream_fetch.records[i].time = 0

\* A later record first, and a record without a time ahead of a timed one.
C21_Witness ==
  /\ StreamsCollected
  /\ Len(stream_fetch.records) = 2
  /\ stream_fetch.records[1].time = 0
  /\ stream_fetch.records[2].time = 2
  /\ result.output_streams[1].time = "None"
  /\ result.output_streams[2].stream_id = "s1"

\* The scenario of C22 as the control plane plays it: the creation response
\* reports Queued, the first status fetch Running, the second Completed.
ScenarioLog == <<"Queued", "Running", "Completed">>

\* The budget is not reached within the scenario (as 20 < 900).
ScenarioBudget == 2 * poll_interval_seconds < job_timeout_seconds

\* C22: when the control plane reports Queued, Running and Completed and the
\* stream fetch returns two records, the orchestration polls through the
\* first two statuses, leaves the loop on Completed, fetches the streams
\* once and returns final state Completed, an output of length 2 and no
\* error_summary.
C22_EndToEndCompleted ==
  /\ (ScenarioBudget /\ raised = "none"
        /\ statusLog \in {<<"Queued">>, <<"Queued", "Running">>}) =>
       /\ pc \in {"sleep", "get"}
       /\ result = NoResult
  /\ (raised = "none" /\ statusLog = ScenarioLog) =>
       /\ pc \in {"streams", "done"}
       /\ getCalls = 2
       /\ total_wait_time = 2 * poll_interval_seconds
       /\ result.kind = "JobResult"
       /\ result.status = "Completed"
       /\ result.error_summary = None
       /\ pc = "done" =>
            /\ streamCalls = 1
            /\ (stream_fetch.failAt < 0 /\ Len(stream_fetch.records) = 2) =>
                 Len(result.output_streams) = 2

C22_Witness ==
  /\ ScenarioBudget
  /\ statusLog = ScenarioLog
  /\ pc = "done"
  /\ stream_fetch.failAt < 0 /\ Len(stream_fetch.records) = 2
  /\ result.status = "Completed"
  /\ Len(result.output_streams) = 2
  /\ result.error_summary = None

\* C23: the composed result is a function of the call's own values: job id,
\* final status, the details of the last response and the budget.  Its times
\* are those of the last status fetch that returned (of the creation
\* response when there was none), whatever the time that has passed, and
\* collecting the output changes nothing else of the result.
C23_ComposedFromLastResponse ==
  /\ [](Returned =>
          /\ result.job_id = job_guid
          /\ result.status = job_final_status
          /\ result.times = getCalls
          /\ result.times = current_job_details.stamp
          /\ result.error_summary \in
               {None,
                Text("exception", current_job_details.exception, 0),
                Text("Job ended with status", job_final_status, 0),
                Text("monitoring timed out", job_guid, job_timeout_seconds)})
  /\ [][pc = "streams" =>
          /\ result'.job_id = result.job_id
          /\ result'.status = result.status
          /\ result'.times = result.times
          /\ result'.error_summary = result.error_summary]_vars

\* Two status fetches, four seconds waited: the times are those of the
\* second fetch.
C23_Witness ==
  /\ Returned
  /\ getCalls = 2
  /\ total_wait_time = 4
  /\ result.times = 2

\* The job names the calls of task p carried.
NamesUsedBy(p) == {c.job_name : c \in {d \in calls : d.task = p}}

\* C24: an orchestration has its job id before the creation call and never
\* changes it: job.create, every job.get and the stream fetch carry that one
\* name, the job_id of its JobResult is that name, and no name is used by
\* two orchestrations.
C24_OneJobIdPerOrchestration ==
  /\ [](\A p \in Procs :
          /\ tasks[p].job_guid \in JobIds
          /\ Cardinality(NamesUsedBy(p)) <= 1
          /\ tasks[p].pc # "create" => NamesUsedBy(p) = {tasks[p].job_guid}
          /\ (tasks[p].pc = "done" /\ tasks[p].result.kind = "JobResult") =>
               NamesUsedBy(p) = {tasks[p].result.job_id}
          /\ \A q \in Procs : p # q => NamesUsedBy(p) \cap NamesUsedBy(q) = {})
  /\ [][\A p \in Procs : tasks'[p].job_guid = tasks[p].job_guid]_vars

\* One orchestration issued all three kinds of call under its name and
\* returned it; the other polls under another name.
C24_Witness ==
  /\ tasks[1].pc = "done"
  /\ tasks[1].result.kind = "JobResult"
  /\ {c.call : c \in {d \in calls : d.task = 1}} = {"create", "get", "streams"}
  /\ NamesUsedBy(1) = {tasks[1].result.job_id}
  /\ tasks[2].pc = "get"
  /\ NamesUsedBy(2) # NamesUsedBy(1)

\* The status fetches started: those that returned or raised, and the one
\* the orchestration is suspended at.
FetchesStarted == getCalls + (IF pc = "get" THEN 1 ELSE 0)

\* C25: every status fetch directly follows one wait of
\* poll_interval_seconds (the first one too), every wait is directly
\* followed by a status fetch, and total_wait_time is poll_interval_seconds
\* times the number of status fetches started.
C25_FixedCadence ==
  /\ [](/\ sleeps = FetchesStarted
        /\ total_wait_time = poll_interval_seconds * FetchesStarted
        /\ FetchesStarted >= 1 => total_wait_time >= poll_interval_seconds)
  /\ [][/\ getCalls' # getCalls =>
             /\ pc = "get"
             /\ getCalls' = getCalls + 1
             /\ sleeps' = sleeps
             /\ sleeps = getCalls + 1
        /\ sleeps' # sleeps =>
             /\ pc = "sleep" /\ pc' = "get"
             /\ sleeps' = sleeps + 1
             /\ getCalls' = getCalls
             /\ sleeps = getCalls
             /\ total_wait_time' = total_wait_time + poll_interval_seconds]_vars

\* The second status fetch is under way after two waits of two seconds.
C25_Witness ==
  /\ pc = "get"
  /\ poll_interval_seconds = 2
  /\ sleeps = 2 /\ getCalls = 1
  /\ total_wait_time = 4

\* C26: the control-plane calls of one orchestration come in the order one
\* job.create, then the job.get calls, then at most one stream fetch; the
\* stream fetch is issued only after the loop has ended, and nothing is
\* called after it.
C26_CallOrder ==
  /\ [](/\ createCalls <= 1
        /\ streamCalls <= 1
        /\ (getCalls > 0 \/ sleeps > 0 \/ streamCalls > 0 \/ pc = "streams") => createCalls = 1
        /\ (pc = "streams" \/ streamCalls = 1) =>
             /\ result.kind = "JobResult"
             /\ job_final_status = LastReported
             /\ job_final_status \in ControlPlaneTerminal
        /\ streamCalls = 1 => pc = "done")
  /\ [][/\ createCalls' # createCalls => (getCalls = 0 /\ streamCalls = 0 /\ sleeps = 0)
        /\ getCalls' # getCalls => (createCalls = 1 /\ streamCalls = 0)
        /\ streamCalls' # streamCalls => (createCalls = 1 /\ pc' = "done")
        /\ streamCalls >= 1 => UNCHANGED <<createCalls, getCalls, sleeps, streamCalls>>]_vars

C26_Witness ==
  /\ pc = "done"
  /\ createCalls = 1 /\ getCalls = 2 /\ streamCalls = 1
  /\ result.status = "Stopped"

\* ceil(job_timeout_seconds / poll_interval_seconds)
PollBound == (job_timeout_seconds + poll_interval_seconds - 1) \div poll_interval_seconds

\* C27: with calls that return, the orchestration ends, whatever the
\* control plane reports; it starts at most ceil(budget / interval) status
\* fetches when the budget is positive (none otherwise), and every wait
\* makes total_wait_time strictly larger.
C27_Terminates ==
  /\ <>(pc = "done")
  /\ [](IF job_timeout_seconds > 0
        THEN FetchesStarted <= PollBound
        ELSE FetchesStarted = 0)
  /\ [][sleeps' # sleeps => total_wait_time' > total_wait_time]_vars

\* The bound is met: budget 3, interval 2, two status fetches, then TimedOut.
C27_Witness ==
  /\ pc = "done"
  /\ job_timeout_seconds = 3 /\ poll_interval_seconds = 2
  /\ getCalls = 2
  /\ result.status = "TimedOut"

\* ------------------------------- properties of the path, continued
\* C28: when the validation probe of get_credential fails, for an
\* authentication failure as for any other error, the credential that was
\* constructed has been closed by the time get_credential raises.
C28_FailedProbeClosesCredential ==
  (probe_raised # "none" /\ hpc = "finished") =>
     /\ credsConstructed = 1
     /\ auth_outcome \notin {"none", "returned"}
     /\ CountIn(resourceLog, "close_credential") = 1

\* What the except arms do: only the generic arm closes the credential; a
\* probe that fails with ClientAuthenticationError, EnvironmentError or
\* ValueError leaves the constructed credential open.
C28_OnlyGenericArmCloses ==
  (probe_raised # "none" /\ hpc = "finished") =>
     /\ credsConstructed = 1
     /\ auth_outcome \notin {"none", "returned"}
     /\ CountIn(resourceLog, "close_credential") =
          (IF probe_raised = "Exception" THEN 1 ELSE 0)

\* The credential leaked by a failed authentication.
C28_CredentialLeft ==
  /\ entry = "get_credential"
  /\ probe_raised = "ClientAuthenticationError"
  /\ hpc = "finished"
  /\ credential # NoCredential
  /\ resourceLog = <<>>

\* ------------------------------- properties of the result, continued
\* C29: a budget of zero or less and a creation response with a status that
\* does not end the loop: no wait, no status fetch and no stream fetch; the
\* result is TimedOut with the times of the creation response and one
\* Error-kind output record whose summary is the error_summary.
C29_NoBudgetNoPoll ==
  (job_timeout_seconds <= 0 /\ raised = "none" /\ createCalls = 1
     /\ statusLog[1] \notin ControlPlaneTerminal) =>
     /\ pc = "done"
     /\ sleeps = 0 /\ getCalls = 0 /\ streamCalls = 0
     /\ total_wait_time = 0
     /\ statusLog = <<statusLog[1]>>
     /\ result.kind = "JobResult"
     /\ result.status = "TimedOut"
     /\ result.times = 0
     /\ result.error_summary # None
     /\ Len(result.output_streams) = 1
     /\ result.output_streams[1].stream_type = "Error"
     /\ result.output_streams[1].summary = result.error_summary

C29_Witness ==
  /\ job_timeout_seconds = 0
  /\ statusLog = <<"Running">>
  /\ pc = "done"
  /\ result.status = "TimedOut"
  /\ getCalls = 0

\* _handle_azure_operation was called and has returned.
HandlerDone == ThroughHandler /\ hpc = "finished" /\ response.ctx # "none"

\* get_credential, the AutomationClient or the logic function raised.
ExceptionRaised == auth_outcome \notin {"none", "returned"} \/ failure = "client"

\* What C30 says of every JobResult: it is returned whole and reported as
\* completed, whatever its final state.
JobResultReportedAsCompleted ==
  result.kind = "JobResult" =>
     /\ response.ctx = "info"
     /\ response.body = "result"
     /\ response.error = None
     /\ result.job_id = job_guid
     /\ result.status \in ControlPlaneTerminal \cup {"TimedOut"}

\* C30: the handler reports a failure (ctx.error) exactly when the logic
\* function returned a dict with the key Error or an exception was raised;
\* every JobResult, with final state Failed, Suspended, Stopped or TimedOut
\* as with Completed, is returned whole and reported as completed.
C30_FailureReportedIffErrorOrException ==
  HandlerDone =>
     /\ response.ctx = "error" <=> (result.kind = "Error" \/ ExceptionRaised)
     /\ JobResultReportedAsCompleted

\* C30 (amended): the handler reports a failure exactly when it rejected
\* the call itself (no subscription id, invalid auth type), the logic
\* function returned a dict with the key Error, or an exception was raised;
\* every JobResult is returned whole and reported as completed.
C30_FailureReportedIffRejectedErrorOrException ==
  HandlerDone =>
     /\ response.ctx \in {"error", "info"}
     /\ response.ctx = "error" <=>
          \/ failure \in {"subscription", "auth_type"}
          \/ result.kind = "Error"
          \/ ExceptionRaised
     /\ JobResultReportedAsCompleted
     /\ result.kind = "Error" =>
          /\ response.body = "result"
          /\ response.error = result.Error

C30_Witness ==
  /\ HandlerDone
  /\ result.kind = "JobResult"
  /\ result.status = "Failed"
  /\ response.ctx = "info"
  /\ response.body = "result"
====
